---- MODULE Spec2Model ----
(***************************************************************************)
(* Counterfactual engine of ContractualCommand                             *)
(* (src/src/routes/customers.js, class CounterfactualEngine).              *)
(*                                                                         *)
(* Numbers.  The engine computes with JavaScript numbers.  Every constant  *)
(* of the engine is a rational whose denominator divides 70000             *)
(* (0.15, 0.10, 0.20, 0.05, 0.3, 0.5, 0.6 and n/7 weeks), so a             *)
(* probability is modelled exactly as an integer count of 1/SCALE.         *)
(* Rounding of IEEE doubles is not modelled for probabilities; it is       *)
(* modelled, bit by bit, for the sum of revenues that have a fractional    *)
(* part.  NaN, -Infinity, undefined and non-number objects are modelled    *)
(* as tagged values, with the JavaScript rules for arithmetic and          *)
(* comparison on them.                                                     *)
(*                                                                         *)
(* Objects.  The two tables are module-level objects that every call       *)
(* reads; the customer records are objects the caller passes by reference. *)
(* tables holds what the tables contain, args what the passed records      *)
(* contain once the call has run.  earlier is a history variable: one      *)
(* call of simulateCustomer that has returned, with the value it returned. *)
(* counterfactual_scenarios is the database table of that name: the rows   *)
(* inserted so far, in the order of their insertion.                       *)
(***************************************************************************)
EXTENDS Integers, Sequences, FiniteSets, TLC

VARIABLES call, ret, tables, args, earlier, counterfactual_scenarios

vars == <<call, ret, tables, args, earlier, counterfactual_scenarios>>

---------------------------------------------------------------------------
(* Units *)

\* decay factors are counted in 1/700 (weeks in 1/7, decay per week in 1/100)
DecayUnit == 7 * 100

\* probabilities and effects are counted in 1/70000
SCALE == 100 * DecayUnit

---------------------------------------------------------------------------
(* Bounds of the model *)

\* baselines are drawn from a grid of GridN steps over [0,1] (and a margin)
GridN == 20

\* grid steps drawn below 0 and above 1
GridMargin == 2

\* revenues are drawn from -MaxRevenue..MaxRevenue
MaxRevenue == 2

\* cohorts hold at most MaxCohort customers
MaxCohort == 3

---------------------------------------------------------------------------
(* JavaScript values *)

Num(n) == [k |-> "num", v |-> n]

NaN == [k |-> "nan", v |-> 0]

NegInfinity == [k |-> "-inf", v |-> 0]

\* the value of a missing property
Undefined == [k |-> "undefined", v |-> 0]

\* a function or object (what an inherited property of Object.prototype is)
Obj == [k |-> "object", v |-> 0]

IsNum(x) == x.k = "num"

\* ToNumber: undefined, functions and plain objects convert to NaN
ToNumber(x) == IF x.k \in {"num", "nan", "-inf"} THEN x ELSE NaN

\* x || 0 : undefined, 0 and NaN are falsy, objects and other numbers truthy
OrZero(x) ==
  IF x.k = "undefined" \/ x.k = "nan" \/ (x.k = "num" /\ x.v = 0)
  THEN Num(0) ELSE x

\* x === 0
StrictEqZero(x) == x.k = "num" /\ x.v = 0

\* a + b on finite numbers and NaN
Add(a, b) ==
  LET x == ToNumber(a)  y == ToNumber(b)
  IN  IF IsNum(x) /\ IsNum(y) THEN Num(x.v + y.v) ELSE NaN

\* a - b
Sub(a, b) ==
  LET x == ToNumber(a)  y == ToNumber(b)
  IN  IF IsNum(x) /\ IsNum(y) THEN Num(x.v - y.v) ELSE NaN

\* unary minus
Neg(a) == IF IsNum(a) THEN Num(0 - a.v) ELSE NaN

\* Math.max(a, b): NaN if either argument is NaN
MathMax(a, b) ==
  LET x == ToNumber(a)  y == ToNumber(b)
  IN  IF IsNum(x) /\ IsNum(y) THEN (IF x.v >= y.v THEN x ELSE y) ELSE NaN

\* Math.min(a, b)
MathMin(a, b) ==
  LET x == ToNumber(a)  y == ToNumber(b)
  IN  IF IsNum(x) /\ IsNum(y) THEN (IF x.v <= y.v THEN x ELSE y) ELSE NaN

\* a >= b : false when either side is NaN
Ge(a, b) == IsNum(a) /\ IsNum(b) /\ a.v >= b.v

\* a < b
Lt(a, b) == IsNum(a) /\ IsNum(b) /\ a.v < b.v

\* a <= b
Le(a, b) == IsNum(a) /\ IsNum(b) /\ a.v <= b.v

\* a > b, where b may be -Infinity
Gt(a, b) ==
  /\ IsNum(a)
  /\ \/ b.k = "-inf"
     \/ (IsNum(b) /\ a.v > b.v)

---------------------------------------------------------------------------
(* Quotients: the result of a JavaScript division, as a reduced fraction *)

RECURSIVE GCD(_, _)
GCD(a, b) == IF b = 0 THEN a ELSE GCD(b, a % b)

Abs(n) == IF n < 0 THEN 0 - n ELSE n

Frac(n, d) ==
  LET g == GCD(Abs(n), Abs(d))
      s == IF d < 0 THEN 0 - 1 ELSE 1
  IN  [k |-> "num", n |-> (s * n) \div g, d |-> (s * d) \div g]

FracNaN == [k |-> "nan", n |-> 0, d |-> 1]

FracInf == [k |-> "inf", n |-> 0, d |-> 1]

FracNegInf == [k |-> "-inf", n |-> 0, d |-> 1]

FracZero == [k |-> "num", n |-> 0, d |-> 1]

\* (a / b) * m for numbers a, b and a positive integer m
DivTimes(a, b, m) ==
  LET x == ToNumber(a)  y == ToNumber(b)
  IN  IF ~(IsNum(x) /\ IsNum(y)) THEN FracNaN
      ELSE IF y.v = 0
           THEN (IF x.v = 0 THEN FracNaN
                 ELSE IF x.v > 0 THEN FracInf ELSE FracNegInf)
           ELSE Frac(x.v * m, y.v)

---------------------------------------------------------------------------
(* Intervention model: the constant tables *)

\* priority_support with the effect of proactive_outreach
INTERVENTION_EFFECTS_PrioritySupportStronger ==
  [ proactive_outreach |-> 0 - 15 * (SCALE \div 100),
    priority_support   |-> 0 - 15 * (SCALE \div 100),
    discount_offer     |-> 0 - 20 * (SCALE \div 100),
    none               |-> 0 ]

INTERVENTION_EFFECTS ==
  [ proactive_outreach |-> 0 - 15 * (SCALE \div 100),
    priority_support   |-> 0 - 10 * (SCALE \div 100),
    discount_offer     |-> 0 - 20 * (SCALE \div 100),
    none               |-> 0 ]

\* Object.keys(INTERVENTION_EFFECTS): own string keys in insertion order
INTERVENTION_KEYS ==
  <<"proactive_outreach", "priority_support", "discount_offer", "none">>

\* effectiveness lost per week of delay, in 1/100
TIMING_DECAY_PER_WEEK == 5

TIMING_OPTIONS ==
  [ no_action |-> 0, 7d_earlier |-> 7, 14d_earlier |-> 14, 30d_earlier |-> 30 ]

\* Object.keys(TIMING_OPTIONS): own string keys in insertion order
TIMING_KEYS == <<"no_action", "7d_earlier", "14d_earlier", "30d_earlier">>

\* both tables are object literals: a key they do not own is looked up on
\* Object.prototype, where these names are functions or objects
ObjectPrototypeKeys ==
  { "constructor", "toString", "toLocaleString", "valueOf",
    "hasOwnProperty", "isPrototypeOf", "propertyIsEnumerable", "__proto__" }

\* table[key]
Lookup(table, key) ==
  IF key \in DOMAIN table THEN Num(table[key])
  ELSE IF key \in ObjectPrototypeKeys THEN Obj
  ELSE Undefined

---------------------------------------------------------------------------
(* CounterfactualEngine.calculateCounterfactualChurn *)

\* the delay counted in whole weeks
weeksDelay_WholeWeeks(daysEarlier) ==
  IF 30 - daysEarlier > 0 THEN 7 * ((30 - daysEarlier) \div 7) ELSE 0

\* Math.max(0, (30 - daysEarlier) / 7), in 1/7 week
weeksDelay(daysEarlier) == IF 30 - daysEarlier > 0 THEN 30 - daysEarlier ELSE 0

\* the decay added in place of subtracted: later interventions grow stronger
effectivenessDecay_Growing(daysEarlier) ==
  DecayUnit + weeksDelay(daysEarlier) * TIMING_DECAY_PER_WEEK

\* Math.max(0.3, effectivenessDecay) with the floor always taken
flooredDecay_AlwaysFloor(daysEarlier) == 3 * (DecayUnit \div 10)

\* 1 - weeksDelay * TIMING_DECAY_PER_WEEK, in 1/DecayUnit
effectivenessDecay(daysEarlier) ==
  DecayUnit - weeksDelay(daysEarlier) * TIMING_DECAY_PER_WEEK

\* Math.max(0.3, effectivenessDecay), in 1/DecayUnit
flooredDecay(daysEarlier) ==
  LET floor == 3 * (DecayUnit \div 10)
      d     == effectivenessDecay(daysEarlier)
  IN  IF d >= floor THEN d ELSE floor

\* interventionEffect * Math.max(0.3, effectivenessDecay)
adjustedEffect(interventionEffect, daysEarlier) ==
  IF IsNum(ToNumber(interventionEffect)) /\ IsNum(ToNumber(daysEarlier))
  THEN Num((interventionEffect.v * flooredDecay(daysEarlier.v)) \div DecayUnit)
  ELSE NaN

\* the effect applied with the wrong sign
calculateCounterfactualChurn_EffectSubtracted(baselineChurnProb, interventionType, interventionTiming) ==
  LET interventionEffect == OrZero(Lookup(tables.INTERVENTION_EFFECTS, interventionType))
      daysEarlier        == OrZero(Lookup(tables.TIMING_OPTIONS, interventionTiming))
  IN  IF StrictEqZero(interventionEffect) THEN baselineChurnProb
      ELSE IF StrictEqZero(daysEarlier) THEN baselineChurnProb
      ELSE MathMax(Num(0),
                   MathMin(Num(SCALE),
                           Sub(baselineChurnProb,
                               adjustedEffect(interventionEffect, daysEarlier))))

\* the early return on daysEarlier === 0 left out
calculateCounterfactualChurn_NoTimingReturn(baselineChurnProb, interventionType, interventionTiming) ==
  LET interventionEffect == OrZero(Lookup(tables.INTERVENTION_EFFECTS, interventionType))
      daysEarlier        == OrZero(Lookup(tables.TIMING_OPTIONS, interventionTiming))
  IN  IF StrictEqZero(interventionEffect) THEN baselineChurnProb
      ELSE MathMax(Num(0),
                   MathMin(Num(SCALE),
                           Add(baselineChurnProb,
                               adjustedEffect(interventionEffect, daysEarlier))))

calculateCounterfactualChurn(baselineChurnProb, interventionType, interventionTiming) ==
  LET interventionEffect == OrZero(Lookup(tables.INTERVENTION_EFFECTS, interventionType))
      daysEarlier        == OrZero(Lookup(tables.TIMING_OPTIONS, interventionTiming))
  IN  IF StrictEqZero(interventionEffect) THEN baselineChurnProb
      ELSE IF StrictEqZero(daysEarlier) THEN baselineChurnProb
      ELSE MathMax(Num(0),
                   MathMin(Num(SCALE),
                           Add(baselineChurnProb,
                               adjustedEffect(interventionEffect, daysEarlier))))

---------------------------------------------------------------------------
(* Customer records and parseFloat *)

\* a raw field of a customer row
RawNum(n) == [t |-> "number", v |-> n]

\* a numeric string, as the database driver returns a DECIMAL column
RawStr(n) == [t |-> "numeric_string", v |-> n]

\* a string that starts with a number and goes on with other text
RawPrefixed(n) == [t |-> "prefixed_string", v |-> n]

\* a string that starts with no number
RawText == [t |-> "text", v |-> 0]

\* a field the row does not have
RawAbsent == [t |-> "absent", v |-> 0]

\* parseFloat(x): the leading number of the text of x, NaN if there is none
parseFloat(x) ==
  IF x.t \in {"number", "numeric_string", "prefixed_string"} THEN Num(x.v)
  ELSE NaN

---------------------------------------------------------------------------
(* CounterfactualEngine.isCustomerSaved, calculateDecisionRegret *)

\* the default value of the threshold parameter, 0.5
SAVED_THRESHOLD == 5 * (SCALE \div 10)

\* the test of the baseline left out
isCustomerSaved_CounterfactualOnly(baselineChurnProb, counterfactualChurnProb) ==
  Lt(counterfactualChurnProb, Num(SAVED_THRESHOLD))

isCustomerSaved(baselineChurnProb, counterfactualChurnProb) ==
  /\ Ge(baselineChurnProb, Num(SAVED_THRESHOLD))
  /\ Lt(counterfactualChurnProb, Num(SAVED_THRESHOLD))

\* the first branch taken for every churned customer
calculateDecisionRegret_ChurnedOnly(revenue, actuallyChurned, wouldBeSaved) ==
  IF actuallyChurned THEN Neg(revenue) ELSE Num(0)

\* the loss returned without its sign
calculateDecisionRegret_SignDropped(revenue, actuallyChurned, wouldBeSaved) ==
  IF actuallyChurned /\ wouldBeSaved THEN revenue ELSE Num(0)

calculateDecisionRegret(revenue, actuallyChurned, wouldBeSaved) ==
  IF actuallyChurned /\ wouldBeSaved THEN Neg(revenue)
  ELSE IF ~actuallyChurned /\ ~wouldBeSaved THEN Num(0)
  ELSE IF actuallyChurned /\ ~wouldBeSaved THEN Num(0)
  ELSE Num(0)

---------------------------------------------------------------------------
(* CounterfactualEngine.simulateCustomer *)

\* baselineChurnProb >= 0.6
CHURNED_THRESHOLD == 6 * (SCALE \div 10)

\* the revenue counted as recovered whether or not the customer is saved
simulateCustomer_RecoveredAlways(customer, interventionType, interventionTiming) ==
  LET baselineChurnProb == parseFloat(customer.baseline_churn_prob)
      revenue           == parseFloat(customer.revenue)
      counterfactualChurnProb ==
        calculateCounterfactualChurn(baselineChurnProb, interventionType,
                                     interventionTiming)
      saved             == isCustomerSaved(baselineChurnProb, counterfactualChurnProb)
      actuallyChurned   == Ge(baselineChurnProb, Num(CHURNED_THRESHOLD))
      churnReduction    == Sub(baselineChurnProb, counterfactualChurnProb)
  IN  [ customer_id               |-> customer.customer_id,
        company                   |-> customer.company,
        baseline_churn_prob       |-> baselineChurnProb,
        counterfactual_churn_prob |-> counterfactualChurnProb,
        churn_reduction           |-> churnReduction,
        churn_reduction_percent   |-> DivTimes(churnReduction, baselineChurnProb, 100),
        saved                     |-> saved,
        revenue                   |-> revenue,
        revenue_recovered         |-> revenue,
        decision_regret_score     |->
          calculateDecisionRegret(revenue, actuallyChurned, saved),
        intervention_type         |-> interventionType,
        intervention_timing       |-> interventionTiming ]

simulateCustomer(customer, interventionType, interventionTiming) ==
  LET baselineChurnProb == parseFloat(customer.baseline_churn_prob)
      revenue           == parseFloat(customer.revenue)
      counterfactualChurnProb ==
        calculateCounterfactualChurn(baselineChurnProb, interventionType,
                                     interventionTiming)
      saved             == isCustomerSaved(baselineChurnProb, counterfactualChurnProb)
      revenueRecovered  == IF saved THEN revenue ELSE Num(0)
      actuallyChurned   == Ge(baselineChurnProb, Num(CHURNED_THRESHOLD))
      decisionRegretScore ==
        calculateDecisionRegret(revenue, actuallyChurned, saved)
      churnReduction    == Sub(baselineChurnProb, counterfactualChurnProb)
      churnReductionPercent == DivTimes(churnReduction, baselineChurnProb, 100)
  IN  [ customer_id               |-> customer.customer_id,
        company                   |-> customer.company,
        baseline_churn_prob       |-> baselineChurnProb,
        counterfactual_churn_prob |-> counterfactualChurnProb,
        churn_reduction           |-> churnReduction,
        churn_reduction_percent   |-> churnReductionPercent,
        saved                     |-> saved,
        revenue                   |-> revenue,
        revenue_recovered         |-> revenueRecovered,
        decision_regret_score     |-> decisionRegretScore,
        intervention_type         |-> interventionType,
        intervention_timing       |-> interventionTiming ]

---------------------------------------------------------------------------
(* CounterfactualEngine.simulateScenario *)

\* flags.filter(f => f).length
RECURSIVE CountTrue(_)
CountTrue(flags) ==
  IF flags = <<>> THEN 0
  ELSE (IF Head(flags) THEN 1 ELSE 0) + CountTrue(Tail(flags))

\* the accumulator left out of the callback: (sum, v) => v
RECURSIVE Reduce_AccumulatorDropped(_, _)
Reduce_AccumulatorDropped(values, sum) ==
  IF values = <<>> THEN sum
  ELSE Reduce_AccumulatorDropped(Tail(values), Head(values))

\* values.reduce((sum, v) => sum + v, sum)
RECURSIVE Reduce(_, _)
Reduce(values, sum) ==
  IF values = <<>> THEN sum
  ELSE Reduce(Tail(values), Add(sum, Head(values)))

\* customers.map(customer => this.simulateCustomer(customer, ...)), the
\* first customer simulated at every position
individualResults_FirstForAll(customers, interventionType, interventionTiming) ==
  [i \in 1..Len(customers) |->
     simulateCustomer(customers[1], interventionType, interventionTiming)]

\* customers.map(customer => this.simulateCustomer(customer, ...))
individualResults(customers, interventionType, interventionTiming) ==
  [i \in 1..Len(customers) |->
     simulateCustomer(customers[i], interventionType, interventionTiming)]

\* the difference divided by the number of all results
churn_avoided_percent_OfAllResults(results) ==
  LET baselineChurned ==
        CountTrue([i \in 1..Len(results) |->
                     Ge(results[i].baseline_churn_prob, Num(SAVED_THRESHOLD))])
      counterfactualChurned ==
        CountTrue([i \in 1..Len(results) |->
                     Ge(results[i].counterfactual_churn_prob, Num(SAVED_THRESHOLD))])
  IN  IF baselineChurned > 0
      THEN DivTimes(Num(baselineChurned - counterfactualChurned),
                    Num(Len(results)), 100)
      ELSE FracZero

\* churnAvoided: the share of the results with baseline >= 0.5 whose
\* counterfactual is below 0.5, in percent
churn_avoided_percent(results) ==
  LET baselineChurned ==
        CountTrue([i \in 1..Len(results) |->
                     Ge(results[i].baseline_churn_prob, Num(SAVED_THRESHOLD))])
      counterfactualChurned ==
        CountTrue([i \in 1..Len(results) |->
                     Ge(results[i].counterfactual_churn_prob, Num(SAVED_THRESHOLD))])
  IN  IF baselineChurned > 0
      THEN DivTimes(Num(baselineChurned - counterfactualChurned),
                    Num(baselineChurned), 100)
      ELSE FracZero

\* the guard totalRevenue > 0 left out
revenue_recovery_rate_Unguarded(revenueRecovered, totalRevenue) ==
  DivTimes(revenueRecovered, totalRevenue, 100)

\* totalRevenue > 0 ? (revenueRecovered / totalRevenue) * 100 : 0
revenue_recovery_rate(revenueRecovered, totalRevenue) ==
  IF Gt(totalRevenue, Num(0))
  THEN DivTimes(revenueRecovered, totalRevenue, 100)
  ELSE FracZero

simulateScenario(customers, interventionType, interventionTiming) ==
  LET results ==
        individualResults(customers, interventionType, interventionTiming)
      customersSaved    == CountTrue([i \in 1..Len(results) |-> results[i].saved])
      totalRevenue      ==
        Reduce([i \in 1..Len(results) |-> results[i].revenue], Num(0))
      revenueRecovered  ==
        Reduce([i \in 1..Len(results) |-> results[i].revenue_recovered], Num(0))
      totalRegret       ==
        Reduce([i \in 1..Len(results) |-> results[i].decision_regret_score],
               Num(0))
      avgChurnReduction ==
        DivTimes(Reduce([i \in 1..Len(results) |-> results[i].churn_reduction],
                        Num(0)),
                 Num(Len(results)), 1)
  IN  [ scenario  |-> [ intervention_type   |-> interventionType,
                        intervention_timing |-> interventionTiming ],
        summary   |-> [ total_customers       |-> Len(customers),
                        customers_saved       |-> customersSaved,
                        revenue_at_risk       |-> totalRevenue,
                        revenue_recovered     |-> revenueRecovered,
                        revenue_recovery_rate |->
                          revenue_recovery_rate(revenueRecovered, totalRevenue),
                        churn_avoided_percent |-> churn_avoided_percent(results),
                        total_decision_regret |-> totalRegret,
                        avg_churn_reduction   |-> avgChurnReduction ],
        customers |-> results ]

---------------------------------------------------------------------------
(* The sum of the revenues in IEEE 754 double arithmetic *)

\* A revenue is a DECIMAL(10,2): a whole number of hundredths.  The sums
\* above are exact, which is what doubles compute for whole numbers of this
\* size; for revenues with a fractional part the additions of reduce round,
\* and the section below computes them bit by bit.

\* the bits of the significand of a double
SignificandBits == 53

\* the double 0
DoubleZero == [e |-> 0, m |-> <<>>]

\* 2^n for n >= 0
RECURSIVE Pow2(_)
Pow2(n) == IF n = 0 THEN 1 ELSE 2 * Pow2(n - 1)

\* n zero bits, none for n <= 0
Zeros(n) == [i \in 1..(IF n > 0 THEN n ELSE 0) |-> 0]

\* bits + 1 (most significant bit first) for bits that are not all ones: the
\* last 0 becomes 1 and the ones after it become 0
Increment(bits) ==
  LET k == CHOOSE i \in 1..Len(bits) :
             bits[i] = 0 /\ \A j \in (i + 1)..Len(bits) : bits[j] = 1
  IN  [i \in 1..Len(bits) |->
         IF i < k THEN bits[i] ELSE IF i = k THEN 1 ELSE 0]

\* round to nearest, ties to even: the double of the value whose leading bit
\* bits[1] = 1 weighs 2^e, the bits after SignificandBits being rounded off;
\* sticky tells that the value has further nonzero bits after bits
RoundToDouble(e, bits, sticky) ==
  LET padded == bits \o Zeros(SignificandBits + 1 - Len(bits))
      kept   == SubSeq(padded, 1, SignificandBits)
      guard  == padded[SignificandBits + 1]
      rest   == sticky \/ \E i \in (SignificandBits + 2)..Len(padded) : padded[i] = 1
      up     == guard = 1 /\ (rest \/ kept[SignificandBits] = 1)
  IN  IF ~up THEN [e |-> e, m |-> kept]
      ELSE IF \A i \in 1..SignificandBits : kept[i] = 1
           THEN [e |-> e + 1, m |-> <<1>> \o Zeros(SignificandBits - 1)]
           ELSE [e |-> e, m |-> Increment(kept)]

\* the bits of the quotient are produced this many at a time
ChunkWidth == 6

\* the w bits of the number q < 2^w, most significant first
ChunkBits(q, w) == [i \in 1..w |-> (q \div Pow2(w - i)) % 2]

\* the first n bits after the binary point of rem / den for 0 <= rem < den,
\* and the remainder they leave
RECURSIVE QuotientBits(_, _, _)
QuotientBits(rem, den, n) ==
  IF n = 0 THEN [bits |-> <<>>, rem |-> rem]
  ELSE LET w      == IF n < ChunkWidth THEN n ELSE ChunkWidth
           scaled == rem * Pow2(w)
           next   == QuotientBits(scaled % den, den, n - w)
       IN  [bits |-> ChunkBits(scaled \div den, w) \o next.bits, rem |-> next.rem]

\* the exponent of num / den > 0: the e with 2^e <= num / den < 2^(e+1)
RECURSIVE Exponent(_, _)
Exponent(num, den) ==
  IF num >= 2 * den THEN 1 + Exponent(num, 2 * den)
  ELSE IF num < den THEN Exponent(2 * num, den) - 1
  ELSE 0

\* parseFloat of the decimal string of hundredths / 100, hundredths >= 0:
\* the double nearest to it
parseFloatDecimal(hundredths) ==
  IF hundredths = 0 THEN DoubleZero
  ELSE LET e   == Exponent(hundredths, 100)
           num == IF e < 0 THEN hundredths * Pow2(0 - e) ELSE hundredths
           den == IF e < 0 THEN 100 ELSE 100 * Pow2(e)
           q   == QuotientBits(num - den, den, SignificandBits)
       IN  RoundToDouble(e, <<1>> \o q.bits, q.rem > 0)

\* the bits of x + y for two bit strings of one length, with the carry out
\* as the first bit; a carry enters position i when a position after it
\* generates one and every position in between passes it on
AddBits(x, y) ==
  LET n == Len(x)
      carry(i) ==
        IF \E j \in (i + 1)..n :
             /\ x[j] + y[j] = 2
             /\ \A k \in (i + 1)..(j - 1) : x[k] + y[k] = 1
        THEN 1 ELSE 0
  IN  <<carry(0)>> \o [i \in 1..n |-> (x[i] + y[i] + carry(i)) % 2]

\* x + y of two doubles >= 0
AddDouble(x, y) ==
  IF x = DoubleZero THEN y
  ELSE IF y = DoubleZero THEN x
  ELSE LET hi   == IF x.e >= y.e THEN x ELSE y
           lo   == IF x.e >= y.e THEN y ELSE x
           d    == hi.e - lo.e
           sum  == AddBits(hi.m \o Zeros(d), Zeros(d) \o lo.m)
       IN  IF sum[1] = 1 THEN RoundToDouble(hi.e + 1, sum, FALSE)
           ELSE RoundToDouble(hi.e, Tail(sum), FALSE)

\* values.reduce((sum, v) => sum + v, sum) over doubles >= 0
RECURSIVE ReduceDouble(_, _)
ReduceDouble(values, sum) ==
  IF values = <<>> THEN sum
  ELSE ReduceDouble(Tail(values), AddDouble(sum, Head(values)))

\* totalRevenue of simulateScenario for customers whose revenues are the
\* decimal strings of hundredths[i] / 100
revenue_at_risk(hundredths) ==
  ReduceDouble([i \in 1..Len(hundredths) |-> parseFloatDecimal(hundredths[i])],
               DoubleZero)

---------------------------------------------------------------------------
(* CounterfactualEngine.findBestIntervention *)

\* Object.keys(INTERVENTION_EFFECTS).filter(t => t !== 'none')
interventionTypes == SelectSeq(INTERVENTION_KEYS, LAMBDA t : t # "none")

\* Object.keys(TIMING_OPTIONS).filter(t => t !== 'no_action')
timingOptions == SelectSeq(TIMING_KEYS, LAMBDA t : t # "no_action")

\* the pairs the nested loops visit, in the order they visit them
Combinations ==
  [n \in 1..(Len(interventionTypes) * Len(timingOptions)) |->
     [ type   |-> interventionTypes[((n - 1) \div Len(timingOptions)) + 1],
       timing |-> timingOptions[((n - 1) % Len(timingOptions)) + 1] ]]

\* the bonus of a saved customer, 0.3
SAVED_BONUS == 3 * (SCALE \div 10)

\* result.churn_reduction + (result.saved ? 0.3 : 0)
Score(result) ==
  Add(result.churn_reduction, IF result.saved THEN Num(SAVED_BONUS) ELSE Num(0))

Null == [kind |-> "null"]

Result(r) == [kind |-> "result", val |-> r]

\* the comparison score >= bestScore in place of score > bestScore
RECURSIVE SearchBest_LastWins(_, _, _)
SearchBest_LastWins(customer, combos, best) ==
  IF combos = <<>> THEN best.bestResult
  ELSE LET result == simulateCustomer(customer, Head(combos).type, Head(combos).timing)
           score  == Score(result)
       IN  SearchBest_LastWins(customer, Tail(combos),
                      IF Gt(score, best.bestScore) \/ score = best.bestScore
                      THEN [bestResult |-> Result(result), bestScore |-> score]
                      ELSE best)

\* one pass of the loop body for every pair of combos, from the state best
RECURSIVE SearchBest(_, _, _)
SearchBest(customer, combos, best) ==
  IF combos = <<>> THEN best.bestResult
  ELSE LET result == simulateCustomer(customer, Head(combos).type, Head(combos).timing)
           score  == Score(result)
       IN  SearchBest(customer, Tail(combos),
                      IF Gt(score, best.bestScore)
                      THEN [bestResult |-> Result(result), bestScore |-> score]
                      ELSE best)

\* the search stopped one combination short
RECURSIVE SearchBest_Copy(_, _, _)
SearchBest_Copy(customer, combos, best) ==
  IF combos = <<>> THEN best.bestResult
  ELSE LET result == simulateCustomer(customer, Head(combos).type, Head(combos).timing)
           score  == Score(result)
       IN  SearchBest_Copy(customer, Tail(combos),
                      IF Gt(score, best.bestScore)
                      THEN [bestResult |-> Result(result), bestScore |-> score]
                      ELSE best)

findBestIntervention_LastSkipped(customer) ==
  SearchBest_Copy(customer, SubSeq(Combinations, 1, Len(Combinations) - 1),
                 [bestResult |-> Null, bestScore |-> NegInfinity])

findBestIntervention(customer) ==
  SearchBest(customer, Combinations,
             [bestResult |-> Null, bestScore |-> NegInfinity])

---------------------------------------------------------------------------
(* Inputs of the calls *)

\* the recognized labels, one unrecognized label that no object owns or
\* inherits, and one name every object inherits
InterventionTypeInputs ==
  { "proactive_outreach", "priority_support", "discount_offer", "none",
    "loyalty_gift", "constructor" }

TimingInputs ==
  { "no_action", "7d_earlier", "14d_earlier", "30d_earlier",
    "60d_earlier", "toString" }

\* the adjusted effects of the nine effective combinations
AdjustedEffects ==
  { adjustedEffect(Num(INTERVENTION_EFFECTS[t]), Num(TIMING_OPTIONS[d])).v :
      t \in {"proactive_outreach", "priority_support", "discount_offer"},
      d \in {"7d_earlier", "14d_earlier", "30d_earlier"} }

\* a grid over [0,1] and a margin outside it, and the baselines at, just
\* below and just above every threshold of the engine
Baselines ==
  { (k * SCALE) \div GridN : k \in (0 - GridMargin)..(GridN + GridMargin) }
  \cup { SAVED_THRESHOLD - e + j : e \in AdjustedEffects, j \in {0 - 1, 0, 1} }
  \cup { 0 - e + j : e \in AdjustedEffects, j \in {0 - 1, 0, 1} }
  \cup { SCALE + j : j \in {0 - 1, 0, 1} }
  \cup { SAVED_THRESHOLD + j : j \in {0 - 1, 0, 1} }
  \cup { CHURNED_THRESHOLD + j : j \in {0 - 1, 0, 1} }

Revenues == (0 - MaxRevenue)..MaxRevenue

RawBaselines ==
  { RawStr(b) : b \in Baselines }
  \cup { RawNum(SAVED_THRESHOLD), RawPrefixed(CHURNED_THRESHOLD), RawText, RawAbsent }

RawRevenues ==
  { RawStr(r) : r \in Revenues } \cup { RawNum(1), RawPrefixed(1), RawText, RawAbsent }

\* two customers of the size of real accounts: baseline 0.72 with revenue
\* 50000, and baseline 0.55 with revenue 10000
LargeAccounts ==
  { [ customer_id |-> "CUST-072", company |-> "Cyberdyne",
      baseline_churn_prob |-> RawStr(72 * (SCALE \div 100)),
      revenue |-> RawStr(50000) ],
    [ customer_id |-> "CUST-055", company |-> "Tyrell",
      baseline_churn_prob |-> RawStr(55 * (SCALE \div 100)),
      revenue |-> RawStr(10000) ] }

Customers ==
  [ customer_id : {"CUST-001"}, company : {"Acme"},
    baseline_churn_prob : RawBaselines, revenue : RawRevenues ]
  \cup LargeAccounts

\* the rows cohorts are made of: not at risk, saved by the stronger
\* interventions without and with regret, out of reach, two rows with a
\* field that does not parse, and a row with a negative revenue
CohortCustomers ==
  { [ customer_id |-> "CUST-001", company |-> "Acme",
      baseline_churn_prob |-> RawStr(3 * (SCALE \div 10)), revenue |-> RawStr(1) ],
    [ customer_id |-> "CUST-002", company |-> "Globex",
      baseline_churn_prob |-> RawStr(55 * (SCALE \div 100)), revenue |-> RawStr(2) ],
    [ customer_id |-> "CUST-003", company |-> "Initech",
      baseline_churn_prob |-> RawStr(62 * (SCALE \div 100)), revenue |-> RawStr(1) ],
    [ customer_id |-> "CUST-004", company |-> "Umbrella",
      baseline_churn_prob |-> RawStr(9 * (SCALE \div 10)), revenue |-> RawStr(2) ],
    [ customer_id |-> "CUST-005", company |-> "Hooli",
      baseline_churn_prob |-> RawAbsent, revenue |-> RawStr(1) ],
    [ customer_id |-> "CUST-006", company |-> "Stark",
      baseline_churn_prob |-> RawStr(62 * (SCALE \div 100)), revenue |-> RawText ],
    [ customer_id |-> "CUST-007", company |-> "Wonka",
      baseline_churn_prob |-> RawStr(62 * (SCALE \div 100)),
      revenue |-> RawStr(0 - 1) ] }

Cohorts == UNION { [1..n -> CohortCustomers] : n \in 0..MaxCohort }

\* revenues in hundredths: 0.10, 0.20, 0.30, 1.00 and 2.00
RevenueHundredths == {10, 20, 30, 100, 200}

\* the revenue columns of the cohorts summed in double arithmetic
RevenueColumns == UNION { [1..n -> RevenueHundredths] : n \in 0..MaxCohort }

---------------------------------------------------------------------------
(* The calls *)

\* no call is in progress
Idle == [op |-> "none"]

\* the tables as the module defines them
InitialTables ==
  [INTERVENTION_EFFECTS |-> INTERVENTION_EFFECTS, TIMING_OPTIONS |-> TIMING_OPTIONS]

\* the parsed revenue written back into the record
customerAfterCall_ParsedInPlace(customer) ==
  [customer EXCEPT !.revenue =
     IF IsNum(parseFloat(@)) THEN RawNum(parseFloat(@).v) ELSE @]

\* a customer record after a call that received it: the engine reads
\* customer_id, company, baseline_churn_prob and revenue and assigns to no
\* property of the record
customerAfterCall(customer) == customer

\* the effect of discount_offer used up by the call
tablesAfterCall_EffectSpent(objects) ==
  [objects EXCEPT !.INTERVENTION_EFFECTS.discount_offer = 0]

\* the tables after a call: the engine looks keys up in them and lists
\* their keys, and assigns to no property of them
tablesAfterCall(objects) == objects

Init ==
  /\ call = Idle
  /\ ret = Null
  /\ tables = InitialTables
  /\ args = <<>>
  /\ earlier = Null
  /\ counterfactual_scenarios = <<>>

CallCalculateCounterfactualChurn ==
  /\ call = Idle
  /\ \E b \in {Num(x) : x \in Baselines} \cup {NaN},
        t \in InterventionTypeInputs, d \in TimingInputs :
       /\ call' = [op |-> "calculateCounterfactualChurn",
                   baselineChurnProb |-> b, interventionType |-> t,
                   interventionTiming |-> d]
       /\ ret' = Result(calculateCounterfactualChurn(b, t, d))
  /\ tables' = tablesAfterCall(tables)
  /\ args' = <<>>
  /\ UNCHANGED <<earlier, counterfactual_scenarios>>

CallSimulateCustomer ==
  /\ call = Idle
  /\ \E c \in Customers, t \in InterventionTypeInputs, d \in TimingInputs :
       /\ call' = [op |-> "simulateCustomer", customer |-> c,
                   interventionType |-> t, interventionTiming |-> d]
       /\ ret' = Result(simulateCustomer(c, t, d))
       /\ args' = <<customerAfterCall(c)>>
  /\ tables' = tablesAfterCall(tables)
  /\ UNCHANGED <<earlier, counterfactual_scenarios>>

CallSimulateScenario ==
  /\ call = Idle
  /\ \E cs \in Cohorts, t \in InterventionTypeInputs, d \in TimingInputs :
       /\ call' = [op |-> "simulateScenario", customers |-> cs,
                   interventionType |-> t, interventionTiming |-> d]
       /\ ret' = Result(simulateScenario(cs, t, d))
       /\ args' = [i \in 1..Len(cs) |-> customerAfterCall(cs[i])]
  /\ tables' = tablesAfterCall(tables)
  /\ UNCHANGED <<earlier, counterfactual_scenarios>>

CallFindBestIntervention ==
  /\ call = Idle
  /\ \E c \in Customers :
       /\ call' = [op |-> "findBestIntervention", customer |-> c]
       /\ ret' = findBestIntervention(c)
       /\ args' = <<customerAfterCall(c)>>
  /\ tables' = tablesAfterCall(tables)
  /\ UNCHANGED <<earlier, counterfactual_scenarios>>

\* the step of simulateScenario that sums the revenues, for a cohort whose
\* revenues have a fractional part
CallTotalRevenue ==
  /\ call = Idle
  /\ \E hundredths \in RevenueColumns :
       /\ call' = [op |-> "totalRevenue", hundredths |-> hundredths]
       /\ ret' = Result(revenue_at_risk(hundredths))
  /\ args' = <<>>
  /\ UNCHANGED <<tables, earlier, counterfactual_scenarios>>

\* the caller has taken the returned value; the engine keeps nothing of a call
Return ==
  /\ call # Idle
  /\ call' = Idle
  /\ ret' = Null
  /\ args' = <<>>
  /\ UNCHANGED <<tables, earlier, counterfactual_scenarios>>

Next ==
  \/ CallCalculateCounterfactualChurn
  \/ CallSimulateCustomer
  \/ CallSimulateScenario
  \/ CallFindBestIntervention
  \/ CallTotalRevenue
  \/ Return

Spec == Init /\ [][Next]_vars

---------------------------------------------------------------------------
(* Repeated calls: a call of simulateCustomer is remembered, other calls    *)
(* of the engine follow, and the call is made again                        *)

\* the customers, types and timings of the repeated calls
RepeatCustomers == CohortCustomers

RepeatTypes == {"discount_offer", "priority_support", "none"}

RepeatTimings == {"7d_earlier", "30d_earlier", "no_action"}

\* cohorts of two customers
RepeatCohorts ==
  { <<c1, c2>> : c1 \in {c \in RepeatCustomers : c.revenue = RawStr(1)},
                 c2 \in {c \in RepeatCustomers : c.revenue = RawStr(2)} }

\* one more call of the engine has been made since the remembered one
\* (counted up to two)
OneMoreCall(remembered) ==
  IF remembered = Null THEN Null
  ELSE [remembered EXCEPT !.calls = IF @ < 2 THEN @ + 1 ELSE @]

RepeatSimulateCustomer ==
  /\ call = Idle
  /\ \E c \in RepeatCustomers, t \in RepeatTypes, d \in RepeatTimings :
       /\ call' = [op |-> "simulateCustomer", customer |-> c,
                   interventionType |-> t, interventionTiming |-> d]
       /\ ret' = Result(simulateCustomer(c, t, d))
       /\ args' = <<customerAfterCall(c)>>
  /\ tables' = tablesAfterCall(tables)
  /\ earlier' = OneMoreCall(earlier)
  /\ UNCHANGED counterfactual_scenarios

RepeatSimulateScenario ==
  /\ call = Idle
  /\ \E cs \in RepeatCohorts, t \in RepeatTypes, d \in RepeatTimings :
       /\ call' = [op |-> "simulateScenario", customers |-> cs,
                   interventionType |-> t, interventionTiming |-> d]
       /\ ret' = Result(simulateScenario(cs, t, d))
       /\ args' = [i \in 1..Len(cs) |-> customerAfterCall(cs[i])]
  /\ tables' = tablesAfterCall(tables)
  /\ earlier' = OneMoreCall(earlier)
  /\ UNCHANGED counterfactual_scenarios

RepeatFindBestIntervention ==
  /\ call = Idle
  /\ \E c \in RepeatCustomers :
       /\ call' = [op |-> "findBestIntervention", customer |-> c]
       /\ ret' = findBestIntervention(c)
       /\ args' = <<customerAfterCall(c)>>
  /\ tables' = tablesAfterCall(tables)
  /\ earlier' = OneMoreCall(earlier)
  /\ UNCHANGED counterfactual_scenarios

RepeatCalculateCounterfactualChurn ==
  /\ call = Idle
  /\ \E b \in {Num(SAVED_THRESHOLD), Num(CHURNED_THRESHOLD)},
        t \in RepeatTypes, d \in RepeatTimings :
       /\ call' = [op |-> "calculateCounterfactualChurn",
                   baselineChurnProb |-> b, interventionType |-> t,
                   interventionTiming |-> d]
       /\ ret' = Result(calculateCounterfactualChurn(b, t, d))
  /\ tables' = tablesAfterCall(tables)
  /\ args' = <<>>
  /\ earlier' = OneMoreCall(earlier)
  /\ UNCHANGED counterfactual_scenarios

\* simulateCustomer has returned, and the call and its value are remembered
ReturnRemembered ==
  /\ call # Idle
  /\ call.op = "simulateCustomer"
  /\ earlier = Null
  /\ earlier' = [call |-> call, ret |-> ret, calls |-> 0]
  /\ call' = Idle
  /\ ret' = Null
  /\ args' = <<>>
  /\ UNCHANGED <<tables, counterfactual_scenarios>>

NextRepeat ==
  \/ RepeatCalculateCounterfactualChurn
  \/ RepeatSimulateCustomer
  \/ RepeatSimulateScenario
  \/ RepeatFindBestIntervention
  \/ ReturnRemembered
  \/ Return

SpecRepeat == Init /\ [][NextRepeat]_vars

---------------------------------------------------------------------------
(* The routes POST /api/counterfactual/simulate and /compare, and          *)
(* GET /api/counterfactual/recommendations/:customerId                     *)

\* the JSON value null in a request body (not the string "null"); as a
\* property key it is the string "null", which neither table owns
JsonNull == "null (JSON)"

\* the rows of customers JOIN churn_predictions: every column is NOT NULL
CustomerRows ==
  << [ customer_id |-> "CUST-002", company |-> "Globex",
       baseline_churn_prob |-> RawStr(55 * (SCALE \div 100)), revenue |-> RawStr(2) ],
     [ customer_id |-> "CUST-003", company |-> "Initech",
       baseline_churn_prob |-> RawStr(62 * (SCALE \div 100)), revenue |-> RawStr(1) ],
     [ customer_id |-> "CUST-008", company |-> "Soylent",
       baseline_churn_prob |-> RawStr(66 * (SCALE \div 100)), revenue |-> RawStr(4) ] >>

\* the customer_ids of a request: a set of ids, empty for null, absent or []
CustomerIdSelections ==
  SUBSET { CustomerRows[i].customer_id : i \in 1..Len(CustomerRows) }
  \cup { {"CUST-999"} }

\* pool.query(query, params): every row when customer_ids is null or empty,
\* the rows WHERE c.customer_id = ANY($1) otherwise
Query(customer_ids) ==
  IF customer_ids = {} THEN CustomerRows
  ELSE SelectSeq(CustomerRows, LAMBDA row : row.customer_id \in customer_ids)

\* the row of counterfactual_scenarios that the INSERT of /simulate builds
ScenarioRow(customerResult, intervention_timing, intervention_type) ==
  [ customer_id               |-> customerResult.customer_id,
    intervention_timing       |-> intervention_timing,
    intervention_type         |-> intervention_type,
    counterfactual_churn_prob |-> customerResult.counterfactual_churn_prob,
    saved                     |-> customerResult.saved,
    revenue_recovered         |-> customerResult.revenue_recovered,
    decision_regret_score     |-> customerResult.decision_regret_score ]

\* intervention_timing and intervention_type are VARCHAR(50) NOT NULL
ViolatesNotNull(row) ==
  row.intervention_timing = JsonNull \/ row.intervention_type = JsonNull

\* for (const customerResult of simulation.customers) await client.query(
\* INSERT ...): each INSERT commits by itself, and the first that fails
\* throws
RECURSIVE InsertAll(_, _, _, _)
InsertAll(stored, customerResults, intervention_timing, intervention_type) ==
  IF customerResults = <<>> THEN [stored |-> stored, thrown |-> FALSE]
  ELSE LET row == ScenarioRow(Head(customerResults), intervention_timing,
                              intervention_type)
       IN  IF ViolatesNotNull(row) THEN [stored |-> stored, thrown |-> TRUE]
           ELSE InsertAll(Append(stored, row), Tail(customerResults),
                          intervention_timing, intervention_type)

\* res.status(...).json(...)
Response(status, body) == [kind |-> "response", status |-> status, body |-> body]

\* the handler of POST /simulate from the table stored: its response, the
\* table after it, and whether it called the engine
postSimulate(body, stored) ==
  LET rows == Query(body.customer_ids)
      afterSimulation(simulation) ==
        LET inserted ==
              IF body.save_results
              THEN InsertAll(stored, simulation.customers,
                             body.intervention_timing, body.intervention_type)
              ELSE [stored |-> stored, thrown |-> FALSE]
        IN  [ response |->
                IF inserted.thrown
                THEN Response(500, [success |-> FALSE,
                                    error |-> "Failed to run counterfactual simulation"])
                ELSE Response(200, [success |-> TRUE, simulation |-> simulation]),
              stored |-> inserted.stored, simulated |-> TRUE ]
  IN  IF Len(rows) = 0
      THEN [ response |-> Response(404, [success |-> FALSE,
                                         error |-> "No customers found for simulation"]),
             stored |-> stored, simulated |-> FALSE ]
      ELSE \* the engine is called once, before the rows are written
           CHOOSE out \in
             { afterSimulation(simulation) :
                 simulation \in { simulateScenario(rows, body.intervention_type,
                                                   body.intervention_timing) } } : TRUE

\* the comparisons left in the order of the loops
sortByRevenueRecovered_Unsorted(comparisons) == comparisons

\* comparisons.sort((a, b) =>
\*   b.summary.revenue_recovered - a.summary.revenue_recovered)
\* for numeric revenue_recovered: the sort is stable, so an entry comes after
\* the entries with a greater revenue_recovered and after the entries with
\* an equal one that stood before it
sortByRevenueRecovered(comparisons) ==
  LET difference(entries, a, b) ==
        Sub(entries[b].summary.revenue_recovered,
            entries[a].summary.revenue_recovered)
      before(entries, i) ==
        Cardinality({ j \in 1..Len(entries) :
                        \/ Gt(difference(entries, i, j), Num(0))
                        \/ difference(entries, i, j) = Num(0) /\ j < i })
      Sorted(entries) ==
        [k \in 1..Len(entries) |->
           entries[CHOOSE i \in 1..Len(entries) : before(entries, i) = k - 1]]
  IN  \* the array is built once, before it is sorted
      CHOOSE sorted \in { Sorted(entries) : entries \in {comparisons} } : TRUE

\* the arrays interventionTypes and timingOptions of the handler
CompareTypes == <<"proactive_outreach", "priority_support", "discount_offer">>

CompareTimings == <<"7d_earlier", "14d_earlier", "30d_earlier">>

\* the pairs the nested loops of the handler visit, in their order
CompareCombinations ==
  [n \in 1..(Len(CompareTypes) * Len(CompareTimings)) |->
     [ type   |-> CompareTypes[((n - 1) \div Len(CompareTimings)) + 1],
       timing |-> CompareTimings[((n - 1) % Len(CompareTimings)) + 1] ]]

\* the entries the loops push for the pairs combos
RECURSIVE Comparisons(_, _)
Comparisons(rows, combos) ==
  IF combos = <<>> THEN <<>>
  ELSE << [ intervention_type   |-> Head(combos).type,
            intervention_timing |-> Head(combos).timing,
            summary |-> simulateScenario(rows, Head(combos).type,
                                         Head(combos).timing).summary ] >>
       \o Comparisons(rows, Tail(combos))

\* the handler of POST /compare: its response
postCompare(body) ==
  LET rows == Query(body.customer_ids)
  IN  IF Len(rows) = 0
      THEN Response(404, [success |-> FALSE, error |-> "No customers found"])
      ELSE LET sorted ==
                 sortByRevenueRecovered(Comparisons(rows, CompareCombinations))
           IN  Response(200, [ success       |-> TRUE,
                               best_scenario |-> sorted[1],
                               all_scenarios |-> sorted ])

\* the handler of GET /recommendations/:customerId: its response
getRecommendations(customerId) ==
  LET rows == SelectSeq(CustomerRows, LAMBDA row : row.customer_id = customerId)
  IN  IF Len(rows) = 0
      THEN Response(404, [success |-> FALSE, error |-> "Customer not found"])
      ELSE Response(200, [ success        |-> TRUE,
                           customer_id    |-> customerId,
                           recommendation |-> findBestIntervention(rows[1]) ])

\* the labels of the requests: two of the tables, one of neither, and null
RouteTypes == {"proactive_outreach", "discount_offer", JsonNull}

RouteTimings == {"7d_earlier", "30d_earlier"}

\* one request that inserts is followed; requests that insert nothing are
\* made before and after it
PostSimulate ==
  /\ call = Idle
  /\ \E ids \in CustomerIdSelections, type \in RouteTypes,
        timing \in RouteTimings, save \in BOOLEAN :
       LET body == [ customer_ids |-> ids, intervention_timing |-> timing,
                     intervention_type |-> type, save_results |-> save ]
       IN  \E out \in { postSimulate(body, counterfactual_scenarios) } :
           /\ counterfactual_scenarios = <<>> \/ out.stored = counterfactual_scenarios
           /\ call' = [ op |-> "POST /simulate", body |-> body,
                        stored |-> counterfactual_scenarios ]
           /\ ret' = out.response
           /\ counterfactual_scenarios' = out.stored
           /\ args' = IF out.simulated
                      THEN [i \in 1..Len(Query(ids)) |-> customerAfterCall(Query(ids)[i])]
                      ELSE <<>>
           /\ tables' = IF out.simulated THEN tablesAfterCall(tables) ELSE tables
  /\ UNCHANGED earlier

PostCompare ==
  /\ call = Idle
  /\ \E ids \in CustomerIdSelections :
       /\ call' = [op |-> "POST /compare", body |-> [customer_ids |-> ids]]
       /\ ret' = postCompare([customer_ids |-> ids])
       /\ args' = [i \in 1..Len(Query(ids)) |-> customerAfterCall(Query(ids)[i])]
       /\ tables' = IF Len(Query(ids)) = 0 THEN tables ELSE tablesAfterCall(tables)
  /\ UNCHANGED <<earlier, counterfactual_scenarios>>

GetRecommendations ==
  /\ call = Idle
  /\ \E customerId \in UNION CustomerIdSelections :
       /\ call' = [op |-> "GET /recommendations", customerId |-> customerId]
       /\ ret' = getRecommendations(customerId)
       /\ args' = [i \in 1..Len(Query({customerId})) |->
                      customerAfterCall(Query({customerId})[i])]
       /\ tables' = IF Len(Query({customerId})) = 0 THEN tables
                    ELSE tablesAfterCall(tables)
  /\ UNCHANGED <<earlier, counterfactual_scenarios>>

NextRoutes ==
  \/ PostSimulate
  \/ PostCompare
  \/ GetRecommendations
  \/ Return

SpecRoutes == Init /\ [][NextRoutes]_vars

---------------------------------------------------------------------------
(* Properties *)

\* the intervention types of the effect table other than "none"
EffectiveTypes == {"proactive_outreach", "priority_support", "discount_offer"}

\* the timing labels of the timing table
TimingLabels == {"no_action", "7d_earlier", "14d_earlier", "30d_earlier"}

\* x is a number in [0, 1]
IsProbability(x) == IsNum(x) /\ 0 <= x.v /\ x.v <= SCALE

\* C1: for every baseline in [0,1], every intervention type of the table
\* other than "none" and every timing label of the table,
\* calculateCounterfactualChurn returns a value <= the baseline, and the
\* churn_reduction of simulateCustomer is >= 0.
C1_CounterfactualAtMostBaseline ==
  /\ (/\ call.op = "calculateCounterfactualChurn"
      /\ IsProbability(call.baselineChurnProb)
      /\ call.interventionType \in EffectiveTypes
      /\ call.interventionTiming \in TimingLabels)
     => /\ IsNum(ret.val)
        /\ ret.val.v <= call.baselineChurnProb.v
  /\ (/\ call.op = "simulateCustomer"
      /\ IsProbability(parseFloat(call.customer.baseline_churn_prob))
      /\ call.interventionType \in EffectiveTypes
      /\ call.interventionTiming \in TimingLabels)
     => /\ IsNum(ret.val.churn_reduction)
        /\ ret.val.churn_reduction.v >= 0
        /\ ret.val.churn_reduction.v =
             ret.val.baseline_churn_prob.v - ret.val.counterfactual_churn_prob.v

\* C1 witness: an effective intervention has lowered a baseline in (0,1]
C1_Witness ==
  /\ call.op = "calculateCounterfactualChurn"
  /\ IsProbability(call.baselineChurnProb)
  /\ call.interventionType = "priority_support"
  /\ call.interventionTiming = "7d_earlier"
  /\ IsNum(ret.val)
  /\ ret.val.v < call.baselineChurnProb.v

\* C2: the saved flag of simulateCustomer is true if and only if the baseline
\* is >= 0.5 and the counterfactual probability is < 0.5; a customer whose
\* baseline is below 0.5 is never saved.
C2_SavedIffCrossesThreshold ==
  call.op = "simulateCustomer" =>
    LET b  == parseFloat(call.customer.baseline_churn_prob)
        cf == ret.val.counterfactual_churn_prob
    IN  /\ ret.val.saved <=>
             (/\ IsNum(b) /\ 2 * b.v >= SCALE
              /\ IsNum(cf) /\ 2 * cf.v < SCALE)
        /\ (IsNum(b) /\ 2 * b.v < SCALE) => ~ret.val.saved

\* C2 witness: a customer below 0.5 whom the intervention has lowered
\* further, and who is not saved
C2_Witness ==
  /\ call.op = "simulateCustomer"
  /\ IsProbability(ret.val.baseline_churn_prob)
  /\ 2 * ret.val.baseline_churn_prob.v < SCALE
  /\ IsNum(ret.val.counterfactual_churn_prob)
  /\ ret.val.counterfactual_churn_prob.v < ret.val.baseline_churn_prob.v
  /\ ~ret.val.saved

C4_ResultWithinUnitInterval ==
  (/\ call.op = "calculateCounterfactualChurn"
   /\ IsProbability(call.baselineChurnProb))
  => IsProbability(ret.val)

\* C5: when the intervention type is "none" or the timing is "no_action",
\* calculateCounterfactualChurn returns exactly the baseline it was given,
\* for every baseline and every value of the other parameter.
C5_NoInterventionReturnsBaseline ==
  (/\ call.op = "calculateCounterfactualChurn"
   /\ (call.interventionType = "none" \/ call.interventionTiming = "no_action"))
  => ret.val = call.baselineChurnProb

\* C5 witness: an effective intervention type at timing "no_action" on a
\* baseline the effect would have lowered
C5_Witness ==
  /\ call.op = "calculateCounterfactualChurn"
  /\ call.interventionType = "discount_offer"
  /\ call.interventionTiming = "no_action"
  /\ IsNum(call.baselineChurnProb)
  /\ call.baselineChurnProb.v > 0
  /\ ret.val = call.baselineChurnProb

\* C6: simulateCustomer fails with a DataError when the customer's
\* baseline_churn_prob or revenue is absent or non-numeric; it never returns
\* a result built from a not-a-number value.
C6_MalformedCustomerRejected ==
  (/\ call.op = "simulateCustomer"
   /\ \/ ~IsNum(parseFloat(call.customer.baseline_churn_prob))
      \/ ~IsNum(parseFloat(call.customer.revenue)))
  => ret.kind = "DataError"

\* C7: simulateScenario on an empty customer list raises no error and
\* returns a summary in which every count and aggregate is 0.
C7_EmptyCohortAllZero ==
  (call.op = "simulateScenario" /\ Len(call.customers) = 0)
  => /\ ret.kind = "result"
     /\ ret.val.summary.total_customers = 0
     /\ ret.val.summary.customers_saved = 0
     /\ ret.val.summary.revenue_at_risk = Num(0)
     /\ ret.val.summary.revenue_recovered = Num(0)
     /\ ret.val.summary.revenue_recovery_rate = FracZero
     /\ ret.val.summary.churn_avoided_percent = FracZero
     /\ ret.val.summary.total_decision_regret = Num(0)
     /\ ret.val.summary.avg_churn_reduction = FracZero

\* the sum of the numbers picked from the entries 1..n of a list, NaN if one
\* of them is NaN
RECURSIVE SumFirst(_, _, _)
SumFirst(results, pick(_), n) ==
  IF n = 0 THEN 0 ELSE SumFirst(results, pick, n - 1) + pick(results[n]).v

Total(results, pick(_)) ==
  IF \A i \in 1..Len(results) : IsNum(pick(results[i]))
  THEN Num(SumFirst(results, pick, Len(results)))
  ELSE NaN

\* C8: summary.customers_saved is the number of entries of the returned
\* customers list with saved = true, summary.revenue_recovered the sum of the
\* saved entries' revenue_recovered, summary.revenue_at_risk the sum of the
\* entries' revenue, and summary.total_customers the length of the list.
C8_SummaryReconcilesWithCustomers ==
  call.op = "simulateScenario" =>
    LET rs    == ret.val.customers
        saved == {i \in 1..Len(rs) : rs[i].saved}
        savedRows == [i \in 1..Len(rs) |->
                        IF rs[i].saved THEN rs[i].revenue_recovered ELSE Num(0)]
    IN  /\ ret.val.summary.customers_saved = Cardinality(saved)
        /\ ret.val.summary.revenue_recovered = Total(savedRows, LAMBDA x : x)
        /\ ret.val.summary.revenue_recovered =
             Total(rs, LAMBDA r : r.revenue_recovered)
        /\ ret.val.summary.revenue_at_risk = Total(rs, LAMBDA r : r.revenue)
        /\ ret.val.summary.total_customers = Len(rs)
        /\ Len(rs) = Len(call.customers)

\* C8 witness: a cohort of three rows of which exactly two are saved, with
\* revenue recovered below the revenue at risk
C8_Witness ==
  /\ call.op = "simulateScenario"
  /\ Len(ret.val.customers) = 3
  /\ ret.val.summary.customers_saved = 2
  /\ IsNum(ret.val.summary.revenue_at_risk)
  /\ IsNum(ret.val.summary.revenue_recovered)
  /\ 0 < ret.val.summary.revenue_recovered.v
  /\ ret.val.summary.revenue_recovered.v < ret.val.summary.revenue_at_risk.v

\* the nine combinations in the order of the claim: types outer, timings inner
NineCombinations ==
  << <<"proactive_outreach", "7d_earlier">>, <<"proactive_outreach", "14d_earlier">>,
     <<"proactive_outreach", "30d_earlier">>,
     <<"priority_support", "7d_earlier">>, <<"priority_support", "14d_earlier">>,
     <<"priority_support", "30d_earlier">>,
     <<"discount_offer", "7d_earlier">>, <<"discount_offer", "14d_earlier">>,
     <<"discount_offer", "30d_earlier">> >>

\* churn_reduction plus 0.3 if saved, in 1/SCALE, of a result with a numeric
\* churn_reduction
ScoreOf(r) == r.churn_reduction.v + (IF r.saved THEN (3 * SCALE) \div 10 ELSE 0)

\* the score of simulateCustomer for the n-th of the nine combinations
NthScore(customer, n) ==
  ScoreOf(simulateCustomer(customer, NineCombinations[n][1], NineCombinations[n][2]))

\* C9: findBestIntervention returns, for every customer (with a numeric
\* baseline), a result whose score is >= the score of simulateCustomer for
\* each of the nine combinations.
C9_BestScoreIsMaximal ==
  (/\ call.op = "findBestIntervention"
   /\ IsNum(parseFloat(call.customer.baseline_churn_prob)))
  => /\ ret.kind = "result"
     /\ IsNum(ret.val.churn_reduction)
     /\ \A n \in 1..Len(NineCombinations) :
          ScoreOf(ret.val) >= NthScore(call.customer, n)

\* C9 witness: a customer for whom the nine scores differ and the last
\* combination enumerated is returned, with a score above the first one's
C9_Witness ==
  /\ call.op = "findBestIntervention"
  /\ ret.kind = "result"
  /\ ret.val.intervention_type = "discount_offer"
  /\ ret.val.intervention_timing = "30d_earlier"
  /\ ret.val.saved
  /\ ScoreOf(ret.val) > NthScore(call.customer, 1)

\* the combinations whose score is the greatest of the nine
Greatest(customer) ==
  { n \in 1..Len(NineCombinations) :
      \A m \in 1..Len(NineCombinations) :
        NthScore(customer, n) >= NthScore(customer, m) }

\* C10: when several of the nine combinations tie for the greatest score,
\* findBestIntervention returns the one enumerated first (types outer in the
\* order proactive_outreach, priority_support, discount_offer; timings inner
\* in the order 7d_earlier, 14d_earlier, 30d_earlier).
C10_FirstOfTiedWins ==
  (/\ call.op = "findBestIntervention"
   /\ IsNum(parseFloat(call.customer.baseline_churn_prob))
   /\ Cardinality(Greatest(call.customer)) >= 2)
  => /\ ret.kind = "result"
     /\ \E n \in Greatest(call.customer) :
          /\ \A m \in Greatest(call.customer) : n <= m
          /\ ret.val.intervention_type = NineCombinations[n][1]
          /\ ret.val.intervention_timing = NineCombinations[n][2]

\* C10 witness: a customer with a positive baseline for whom several but not
\* all combinations tie for the greatest score, the first of them not being
\* the first of the nine
C10_Witness ==
  /\ call.op = "findBestIntervention"
  /\ ret.kind = "result"
  /\ Cardinality(Greatest(call.customer)) >= 2
  /\ 1 \notin Greatest(call.customer)
  /\ ret.val.intervention_type = "proactive_outreach"
  /\ ret.val.intervention_timing = "14d_earlier"

\* the four intervention types of the effect table
RecognizedTypes == EffectiveTypes \cup {"none"}

\* C11: a type that is not one of the four intervention types, or a timing
\* that is not one of the four timing labels, raises no error and behaves as
\* no effect: calculateCounterfactualChurn returns the baseline unchanged.
\* (Stated here for baselines that are probabilities.)
C11_UnrecognizedLabelNoEffect ==
  (/\ call.op = "calculateCounterfactualChurn"
   /\ IsProbability(call.baselineChurnProb)
   /\ \/ call.interventionType \notin RecognizedTypes
      \/ call.interventionTiming \notin TimingLabels)
  => /\ ret.kind = "result"
     /\ ret.val = call.baselineChurnProb

\* C12: churn_reduction_percent is churn_reduction / baseline x 100 when the
\* baseline is not zero, and 0 when the baseline is 0.
C12_ReductionPercentGuarded ==
  (/\ call.op = "simulateCustomer"
   /\ IsNum(ret.val.baseline_churn_prob)
   /\ IsNum(ret.val.churn_reduction))
  => ret.val.churn_reduction_percent =
       (IF ret.val.baseline_churn_prob.v = 0 THEN FracZero
        ELSE Frac(100 * ret.val.churn_reduction.v, ret.val.baseline_churn_prob.v))

\* a customer of the input shape: baseline in [0,1], revenue a number >= 0
HasInputShape(customer) ==
  /\ IsProbability(parseFloat(customer.baseline_churn_prob))
  /\ IsNum(parseFloat(customer.revenue))
  /\ parseFloat(customer.revenue).v >= 0

C15_RecoveredIsRevenueWhenSaved ==
  (call.op = "simulateCustomer")
  => /\ ret.val.saved
        => ret.val.revenue_recovered = parseFloat(call.customer.revenue)
     /\ ~ret.val.saved => ret.val.revenue_recovered = Num(0)

\* a saved customer with a revenue of 2
C15_Witness ==
  /\ call.op = "simulateCustomer"
  /\ ret.val.saved
  /\ call.customer.revenue = RawStr(2)
  /\ ret.val.revenue_recovered = Num(2)

\* the timing labels of the timing table with nonzero days-earlier
EarlierTimings == TimingLabels \ {"no_action"}

\* C16: for every intervention type of the effect table other than "none"
\* and every timing label with nonzero days-earlier, the effect
\* calculateCounterfactualChurn applies to a baseline (read off where the
\* clamp to [0,1] does not act: the baseline is at least the base effect
\* magnitude) has magnitude at least 0.3 times and at most 1 times the base
\* effect magnitude of the type.
C16_AdjustedEffectWithinBounds ==
  (/\ call.op = "calculateCounterfactualChurn"
   /\ call.interventionType \in EffectiveTypes
   /\ call.interventionTiming \in EarlierTimings
   /\ IsProbability(call.baselineChurnProb)
   /\ call.baselineChurnProb.v >= Abs(INTERVENTION_EFFECTS[call.interventionType]))
  => /\ IsNum(ret.val)
     /\ LET applied == Abs(ret.val.v - call.baselineChurnProb.v)
            base    == Abs(INTERVENTION_EFFECTS[call.interventionType])
        IN  /\ 10 * applied >= 3 * base
            /\ applied <= base

\* a decayed effect strictly between the two bounds
C16_Witness ==
  /\ call.op = "calculateCounterfactualChurn"
  /\ call.interventionType = "proactive_outreach"
  /\ call.interventionTiming = "7d_earlier"
  /\ call.baselineChurnProb = Num(SCALE \div 2)
  /\ IsNum(ret.val)
  /\ LET applied == Abs(ret.val.v - call.baselineChurnProb.v)
         base    == Abs(INTERVENTION_EFFECTS["proactive_outreach"])
     IN  /\ 10 * applied > 3 * base
         /\ applied < base

\* the number of results whose field is at least 0.5
ChurnedCount(results, field) ==
  Cardinality({ i \in 1..Len(results) :
                  /\ IsNum(results[i][field])
                  /\ 2 * results[i][field].v >= SCALE })

\* C17: summary.churn_avoided_percent of simulateScenario equals (the number
\* of results with baseline >= 0.5 minus the number of results with
\* counterfactual >= 0.5) divided by the number of results with baseline
\* >= 0.5, times 100, and is 0 when no result has baseline >= 0.5.
C17_ChurnAvoidedPercent ==
  (call.op = "simulateScenario")
  => LET nb == ChurnedCount(ret.val.customers, "baseline_churn_prob")
         nc == ChurnedCount(ret.val.customers, "counterfactual_churn_prob")
     IN  ret.val.summary.churn_avoided_percent =
           (IF nb = 0 THEN FracZero ELSE Frac(100 * (nb - nc), nb))

\* three customers, two at risk, one of the two brought below 0.5: 50 percent
C17_Witness ==
  /\ call.op = "simulateScenario"
  /\ Len(ret.val.customers) = 3
  /\ ChurnedCount(ret.val.customers, "baseline_churn_prob") = 2
  /\ ChurnedCount(ret.val.customers, "counterfactual_churn_prob") = 1
  /\ ret.val.summary.churn_avoided_percent = Frac(50, 1)

\* every customer of the cohort has a numeric revenue >= 0
NonNegativeRevenues(customers) ==
  \A i \in 1..Len(customers) :
    /\ IsNum(parseFloat(customers[i].revenue))
    /\ parseFloat(customers[i].revenue).v >= 0

\* for cohorts with non-negative revenues the rate lies in [0, 100] and
\* revenue_recovered is at most revenue_at_risk
RateWithinPercentRange ==
  (/\ call.op = "simulateScenario"
   /\ NonNegativeRevenues(call.customers))
  => LET summary == ret.val.summary
     IN  /\ IsNum(summary.revenue_recovered) /\ IsNum(summary.revenue_at_risk)
         /\ summary.revenue_recovered.v <= summary.revenue_at_risk.v
         /\ summary.revenue_recovery_rate.k = "num"
         /\ 0 <= summary.revenue_recovery_rate.n
         /\ summary.revenue_recovery_rate.n <= 100 * summary.revenue_recovery_rate.d

\* C18 as stated: summary.revenue_recovery_rate of simulateScenario equals
\* revenue_recovered / revenue_at_risk x 100 and is 0 when revenue_at_risk
\* is 0; for cohorts with non-negative revenues it lies in [0, 100] and
\* revenue_recovered never exceeds revenue_at_risk.  (Read for cohorts whose
\* revenues all parse to numbers.)
C18_RateIsRatioUnlessRiskZero ==
  /\ (/\ call.op = "simulateScenario"
      /\ IsNum(ret.val.summary.revenue_at_risk))
     => LET summary == ret.val.summary
        IN  summary.revenue_recovery_rate =
              (IF summary.revenue_at_risk = Num(0) THEN FracZero
               ELSE DivTimes(summary.revenue_recovered, summary.revenue_at_risk, 100))
  /\ RateWithinPercentRange

\* C18 amended: summary.revenue_recovery_rate equals revenue_recovered /
\* revenue_at_risk x 100 when revenue_at_risk is a number greater than 0 and
\* is 0 otherwise (revenue_at_risk zero, negative or NaN); for cohorts with
\* non-negative revenues it lies in [0, 100] and revenue_recovered never
\* exceeds revenue_at_risk.
C18_RateIsRatioWhenRiskPositive ==
  /\ (call.op = "simulateScenario")
     => LET summary == ret.val.summary
        IN  IF IsNum(summary.revenue_at_risk) /\ summary.revenue_at_risk.v > 0
            THEN /\ IsNum(summary.revenue_recovered)
                 /\ summary.revenue_recovery_rate =
                      Frac(100 * summary.revenue_recovered.v,
                           summary.revenue_at_risk.v)
            ELSE summary.revenue_recovery_rate = FracZero
  /\ RateWithinPercentRange

\* two of three units of revenue recovered
C18_Witness ==
  /\ call.op = "simulateScenario"
  /\ NonNegativeRevenues(call.customers)
  /\ ret.val.summary.revenue_at_risk = Num(3)
  /\ ret.val.summary.revenue_recovered = Num(2)
  /\ ret.val.summary.revenue_recovery_rate = Frac(200, 3)

\* the sequence s with its entries i and i + 1 exchanged
Swap(s, i) ==
  [j \in 1..Len(s) |-> IF j = i THEN s[i + 1] ELSE IF j = i + 1 THEN s[i] ELSE s[j]]

\* the i-th entry of simulateScenario's customers list equals
\* simulateCustomer applied to the i-th input customer alone
EntriesSimulatedAlone ==
  (call.op = "simulateScenario")
  => /\ Len(ret.val.customers) = Len(call.customers)
     /\ \A i \in 1..Len(call.customers) :
          ret.val.customers[i] =
            simulateCustomer(call.customers[i], call.interventionType,
                             call.interventionTiming)

\* C19 as stated: the i-th entry of simulateScenario's customers list equals
\* simulateCustomer applied to the i-th input customer alone, and permuting
\* the input list leaves every summary field (counts and sums) unchanged.
\* Exchanging two neighbours stands for permuting: every permutation is a
\* chain of such exchanges, and every cohort is called.
C19_SummaryUnchangedByPermutation ==
  /\ EntriesSimulatedAlone
  /\ (call.op = "simulateScenario")
     => \A i \in 1..(Len(call.customers) - 1) :
          simulateScenario(Swap(call.customers, i), call.interventionType,
                           call.interventionTiming).summary = ret.val.summary
  /\ (call.op = "totalRevenue")
     => \A i \in 1..(Len(call.hundredths) - 1) :
          revenue_at_risk(Swap(call.hundredths, i)) = ret.val

\* C19 amended: the i-th entry of simulateScenario's customers list equals
\* simulateCustomer applied to the i-th input customer alone; permuting the
\* input list leaves the counts (total_customers, customers_saved,
\* churn_avoided_percent) unchanged, and leaves the sums of the revenues
\* (revenue_at_risk, revenue_recovered, total_decision_regret, and with them
\* revenue_recovery_rate) unchanged when the revenues are whole numbers.  (The cohorts of simulateScenario
\* here have whole or unparseable revenues.)
C19_CountsUnchangedByPermutation ==
  /\ EntriesSimulatedAlone
  /\ (call.op = "simulateScenario")
     => \A i \in 1..(Len(call.customers) - 1) :
          LET permuted ==
                simulateScenario(Swap(call.customers, i), call.interventionType,
                                 call.interventionTiming).summary
              summary == ret.val.summary
          IN  /\ permuted.total_customers = summary.total_customers
              /\ permuted.customers_saved = summary.customers_saved
              /\ permuted.churn_avoided_percent = summary.churn_avoided_percent
              /\ permuted.revenue_at_risk = summary.revenue_at_risk
              /\ permuted.revenue_recovered = summary.revenue_recovered
              /\ permuted.revenue_recovery_rate = summary.revenue_recovery_rate
              /\ permuted.total_decision_regret = summary.total_decision_regret
  /\ (/\ call.op = "totalRevenue"
      /\ \A i \in 1..Len(call.hundredths) : call.hundredths[i] % 100 = 0)
     => \A i \in 1..(Len(call.hundredths) - 1) :
          revenue_at_risk(Swap(call.hundredths, i)) = ret.val

\* a cohort of three different customers, two of them saved
C19_Witness ==
  /\ call.op = "simulateScenario"
  /\ Len(call.customers) = 3
  /\ Cardinality({ call.customers[i].customer_id : i \in 1..3 }) = 3
  /\ ret.val.summary.customers_saved = 2
  /\ ret.val.summary.revenue_at_risk = Num(4)

\* C14: simulateCustomer is deterministic and has no hidden state: a call
\* with the customer, intervention type and timing of an earlier call
\* returns a result equal to the earlier one in every field, whatever calls
\* of the engine were made in between.
C14_SameInputsSameResult ==
  (/\ call.op = "simulateCustomer"
   /\ earlier # Null
   /\ earlier.call = call)
  => ret = earlier.ret

\* the remembered call made again after another call of the engine
C14_Witness ==
  /\ call.op = "simulateCustomer"
  /\ earlier # Null
  /\ earlier.call = call
  /\ earlier.calls = 2
  /\ call.interventionType = "discount_offer"
  /\ ret.val.saved
  /\ ret = earlier.ret

\* C20: simulateCustomer, simulateScenario and findBestIntervention leave
\* the customer records they receive, and the INTERVENTION_EFFECTS and
\* TIMING_OPTIONS tables, unchanged.
C20_RecordsAndTablesUnchanged ==
  /\ tables = InitialTables
  /\ call.op \in {"simulateCustomer", "findBestIntervention"}
     => args = <<call.customer>>
  /\ call.op = "simulateScenario" => args = call.customers

\* a cohort of three records, one of them saved, has been simulated
C20_Witness ==
  /\ call.op = "simulateScenario"
  /\ Len(call.customers) = 3
  /\ ret.val.summary.customers_saved = 1
  /\ args = call.customers
  /\ tables = InitialTables

\* the call simulateCustomer(customer, type, timing) has returned
Simulated(customer, type, timing) ==
  /\ call.op = "simulateCustomer"
  /\ call.customer = customer
  /\ call.interventionType = type
  /\ call.interventionTiming = timing

\* the customer of LargeAccounts with the given id
LargeAccount(id) == CHOOSE c \in LargeAccounts : c.customer_id = id

\* C21: simulating a customer with baseline 0.72 and revenue 50000 under
\* proactive_outreach at 14d_earlier yields the counterfactual probability
\* 0.72 - 0.15 x (1 - (16/7) x 0.05), which is 0.5871 to four places,
\* saved = false, revenue_recovered = 0 and decision_regret_score = 0.
C21_Example072 ==
  Simulated(LargeAccount("CUST-072"), "proactive_outreach", "14d_earlier")
  => /\ IsNum(ret.val.counterfactual_churn_prob)
     /\ ret.val.counterfactual_churn_prob.v =
          (SCALE \div (100 * DecayUnit))
          * (72 * DecayUnit - 15 * (DecayUnit - 16 * TIMING_DECAY_PER_WEEK))
     /\ 2 * (10000 * ret.val.counterfactual_churn_prob.v - 5871 * SCALE) < SCALE
     /\ 2 * (10000 * ret.val.counterfactual_churn_prob.v - 5871 * SCALE) >= 0 - SCALE
     /\ ret.val.saved = FALSE
     /\ ret.val.revenue_recovered = Num(0)
     /\ ret.val.decision_regret_score = Num(0)

\* the customer of C21 has been simulated and was at risk with revenue 50000
C21_Witness ==
  /\ Simulated(LargeAccount("CUST-072"), "proactive_outreach", "14d_earlier")
  /\ ret.val.baseline_churn_prob = Num(72 * (SCALE \div 100))
  /\ ret.val.revenue = Num(50000)

\* C22: simulating a customer with baseline 0.55 and revenue 10000 under
\* proactive_outreach at 30d_earlier applies the full effect (decay factor
\* 1), yielding counterfactual 0.40, saved = true, revenue_recovered = 10000
\* and decision_regret_score = 0 (the baseline is below 0.6).
C22_Example055 ==
  Simulated(LargeAccount("CUST-055"), "proactive_outreach", "30d_earlier")
  => /\ ret.val.counterfactual_churn_prob = Num(40 * (SCALE \div 100))
     /\ ret.val.churn_reduction = Num(15 * (SCALE \div 100))
     /\ ret.val.saved = TRUE
     /\ ret.val.revenue_recovered = Num(10000)
     /\ ret.val.decision_regret_score = Num(0)
     /\ ret.val.baseline_churn_prob.v < CHURNED_THRESHOLD

\* the customer of C22 has been simulated and its revenue recovered
C22_Witness ==
  /\ Simulated(LargeAccount("CUST-055"), "proactive_outreach", "30d_earlier")
  /\ ret.val.baseline_churn_prob = Num(55 * (SCALE \div 100))
  /\ ret.val.revenue_recovered = ret.val.revenue
  /\ ret.val.revenue = Num(10000)

\* POST /api/counterfactual/compare has answered a request that found rows
Compared ==
  /\ call.op = "POST /compare"
  /\ Len(Query(call.body.customer_ids)) > 0

\* C23: when at least one customer is found, POST
\* /api/counterfactual/compare answers with all_scenarios of exactly nine
\* entries, one for each of the three types other than none with each of the
\* three timings other than no_action, each carrying the summary of its
\* scenario, in descending order of summary.revenue_recovered; and
\* best_scenario is the first of them, its revenue_recovered at least that
\* of every other entry.
C23_NineScenariosSortedByRecovered ==
  Compared
  => LET all  == ret.body.all_scenarios
         best == ret.body.best_scenario
         rows == Query(call.body.customer_ids)
     IN  /\ ret.status = 200
         /\ Len(all) = 9
         /\ { <<all[i].intervention_type, all[i].intervention_timing>> :
                i \in 1..Len(all) } = EffectiveTypes \X EarlierTimings
         /\ \A i \in 1..Len(all) :
               all[i].summary =
                 simulateScenario(rows, all[i].intervention_type,
                                  all[i].intervention_timing).summary
         /\ \A i, j \in 1..Len(all) :
               i < j => Ge(all[i].summary.revenue_recovered,
                           all[j].summary.revenue_recovered)
         /\ best = all[1]
         /\ \A i \in 1..Len(all) :
               Ge(best.summary.revenue_recovered, all[i].summary.revenue_recovered)

\* a comparison whose scenarios recover different revenues, the most in the
\* best scenario, which the loops did not visit first
C23_Witness ==
  /\ Compared
  /\ ret.status = 200
  /\ Gt(ret.body.all_scenarios[1].summary.revenue_recovered,
        ret.body.all_scenarios[9].summary.revenue_recovered)
  /\ ret.body.best_scenario.intervention_type # CompareTypes[1]

\* the rows that the request in progress has added to counterfactual_scenarios
Written ==
  SubSeq(counterfactual_scenarios, Len(call.stored) + 1,
         Len(counterfactual_scenarios))

\* C24: POST /api/counterfactual/simulate writes rows to
\* counterfactual_scenarios only when save_results is true and customers
\* were found, and then writes exactly one row per entry of
\* simulation.customers; when the customer query returns no rows it responds
\* 404 without running the engine and without writing any row.
C24_OneRowPerSimulatedCustomer ==
  call.op = "POST /simulate"
  => LET rows == Query(call.body.customer_ids)
         simulation == simulateScenario(rows, call.body.intervention_type,
                                        call.body.intervention_timing)
     IN  /\ SubSeq(counterfactual_scenarios, 1, Len(call.stored)) = call.stored
         /\ IF call.body.save_results /\ Len(rows) > 0
            THEN /\ Len(Written) = Len(simulation.customers)
                 /\ \A i \in 1..Len(Written) :
                      Written[i] = ScenarioRow(simulation.customers[i],
                                               call.body.intervention_timing,
                                               call.body.intervention_type)
            ELSE Written = <<>>
         /\ Len(rows) = 0
              => /\ ret.status = 404
                 /\ args = <<>>
                 /\ Written = <<>>

\* the call in progress passes a type and a timing of the two tables
TableLabels ==
  /\ call.interventionType \in RecognizedTypes
  /\ call.interventionTiming \in TimingLabels

\* 1 when the probability is at least 0.5, and 0 otherwise
Churns(probability) ==
  IF IsNum(probability) /\ 2 * probability.v >= SCALE THEN 1 ELSE 0

\* C25: for every cohort of customers with baselines in [0,1] and every
\* intervention type and timing, the number of results with baseline >= 0.5
\* minus the number with counterfactual >= 0.5 equals
\* summary.customers_saved, so churn_avoided_percent is customers_saved
\* divided by the number of results with baseline >= 0.5, times 100, and
\* lies in [0, 100]; result by result, a customer is saved exactly when its
\* baseline is counted and its counterfactual is not.
C25_SavedIsChurnedDifference ==
  /\ (/\ call.op = "simulateCustomer"
      /\ TableLabels
      /\ IsProbability(parseFloat(call.customer.baseline_churn_prob)))
     => Churns(ret.val.baseline_churn_prob)
          - Churns(ret.val.counterfactual_churn_prob)
        = (IF ret.val.saved THEN 1 ELSE 0)
  /\ (/\ call.op = "simulateScenario"
      /\ TableLabels
      /\ \A i \in 1..Len(call.customers) :
           IsProbability(parseFloat(call.customers[i].baseline_churn_prob)))
     => LET nb == ChurnedCount(ret.val.customers, "baseline_churn_prob")
            nc == ChurnedCount(ret.val.customers, "counterfactual_churn_prob")
            percent == ret.val.summary.churn_avoided_percent
        IN  /\ nb - nc = ret.val.summary.customers_saved
            /\ nb > 0 => percent = Frac(100 * ret.val.summary.customers_saved, nb)
            /\ IsNum(percent)
            /\ 0 <= percent.n
            /\ percent.n <= 100 * percent.d

\* a cohort of three with baselines in [0,1], two of them counted at the
\* baseline and one of the two saved
C25_Witness ==
  /\ call.op = "simulateScenario"
  /\ TableLabels
  /\ \A i \in 1..Len(call.customers) :
       IsProbability(parseFloat(call.customers[i].baseline_churn_prob))
  /\ Len(call.customers) = 3
  /\ ChurnedCount(ret.val.customers, "baseline_churn_prob") = 2
  /\ ChurnedCount(ret.val.customers, "counterfactual_churn_prob") = 1
  /\ ret.val.summary.customers_saved = 1

\* findBestIntervention has returned for a customer whose baseline parses
\* to a number
BestFound ==
  /\ call.op = "findBestIntervention"
  /\ IsNum(parseFloat(call.customer.baseline_churn_prob))

PrioritySupported ==
  /\ call.op = "simulateCustomer"
  /\ call.interventionType = "priority_support"
  /\ IsProbability(parseFloat(call.customer.baseline_churn_prob))

\* C27: under intervention type priority_support, at every timing and for
\* every customer with baseline in [0,1], decision_regret_score is 0: a
\* baseline >= 0.6 reduced by at most 0.10 never falls below 0.5, so such a
\* customer is never both saved and counted as actually churned.
C27_NoRegretUnderPrioritySupport ==
  PrioritySupported
  => /\ ret.val.decision_regret_score = Num(0)
     /\ ~(/\ ret.val.saved
           /\ ret.val.baseline_churn_prob.v >= CHURNED_THRESHOLD)
     /\ (/\ call.interventionTiming \in TimingLabels
         /\ ret.val.baseline_churn_prob.v >= CHURNED_THRESHOLD)
        => /\ Ge(ret.val.counterfactual_churn_prob, Num(SAVED_THRESHOLD))
           /\ 10 * ret.val.churn_reduction.v <= SCALE

\* a customer with a revenue at baseline 0.6, whom the full effect of
\* priority_support takes to 0.5 and no further
C27_Witness ==
  /\ PrioritySupported
  /\ call.interventionTiming = "30d_earlier"
  /\ ret.val.baseline_churn_prob = Num(CHURNED_THRESHOLD)
  /\ ret.val.counterfactual_churn_prob = Num(SAVED_THRESHOLD)
  /\ ~ret.val.saved
  /\ Gt(ret.val.revenue, Num(0))

\* the timing labels from the earliest intervention to none at all
FromEarliest == <<"30d_earlier", "14d_earlier", "7d_earlier", "no_action">>

\* calculateCounterfactualChurn has returned for a baseline in [0,1], a type
\* with an effect and a timing of the table
EffectTimed ==
  /\ call.op = "calculateCounterfactualChurn"
  /\ IsProbability(call.baselineChurnProb)
  /\ call.interventionType \in EffectiveTypes
  /\ call.interventionTiming \in TimingLabels

\* the value of calculateCounterfactualChurn for the baseline and the type of
\* the call in progress at the n-th timing of FromEarliest
AtTiming(n) ==
  calculateCounterfactualChurn(call.baselineChurnProb, call.interventionType,
                               FromEarliest[n])

\* C28: for a fixed baseline and a fixed intervention type other than none,
\* the counterfactual probability is non-increasing as the timing moves
\* earlier: result at 30d_earlier <= result at 14d_earlier <= result at
\* 7d_earlier <= result at no_action, which equals the baseline.
C28_EarlierIsNoWorse ==
  EffectTimed
  => /\ \E n \in 1..Len(FromEarliest) :
          /\ FromEarliest[n] = call.interventionTiming
          /\ ret.val = AtTiming(n)
          /\ \A m \in 1..Len(FromEarliest) :
               /\ m < n => Le(AtTiming(m), ret.val)
               /\ m > n => Le(ret.val, AtTiming(m))
     /\ \A n \in 1..(Len(FromEarliest) - 1) : Le(AtTiming(n), AtTiming(n + 1))
     /\ AtTiming(Len(FromEarliest)) = call.baselineChurnProb

\* a call at 14d_earlier whose value lies strictly between the values at
\* 30d_earlier and at 7d_earlier, all below the baseline
C28_Witness ==
  /\ EffectTimed
  /\ call.interventionTiming = "14d_earlier"
  /\ Lt(AtTiming(1), ret.val)
  /\ Lt(ret.val, AtTiming(3))
  /\ Lt(AtTiming(3), call.baselineChurnProb)

\* the days of the timing table other than those of no_action
EarlierDays == { TIMING_OPTIONS[d] : d \in EarlierTimings }

\* the 0.3 of Math.max(0.3, effectivenessDecay), in 1/DecayUnit
DecayFloor == 3 * (DecayUnit \div 10)

\* C29: with the timing table (7, 14 and 30 days earlier) the 0.3 decay
\* floor is never the binding term: the unclamped decay factor
\* 1 - max(0, (30 - daysEarlier)/7) x 0.05 is always greater than 0.3 (its
\* smallest value, at 7d_earlier, is 0.836 to three places), so the adjusted
\* effect always equals the base effect times the unclamped decay.
C29_FloorNeverBinds ==
  (/\ call.op = "calculateCounterfactualChurn"
   /\ call.interventionType \in EffectiveTypes
   /\ call.interventionTiming \in EarlierTimings)
  => LET days   == tables.TIMING_OPTIONS[call.interventionTiming]
         effect == tables.INTERVENTION_EFFECTS[call.interventionType]
     IN  /\ days \in EarlierDays
         /\ effectivenessDecay(days) > DecayFloor
         /\ flooredDecay(days) = effectivenessDecay(days)
         /\ effectivenessDecay(days) >= effectivenessDecay(7)
         /\ 2 * (1000 * effectivenessDecay(7) - 836 * DecayUnit) < DecayUnit
         /\ 2 * (1000 * effectivenessDecay(7) - 836 * DecayUnit) >= 0 - DecayUnit
         /\ adjustedEffect(Num(effect), Num(days))
              = Num((effect * effectivenessDecay(days)) \div DecayUnit)
         /\ IsNum(call.baselineChurnProb)
              => ret.val =
                   MathMax(Num(0),
                           MathMin(Num(SCALE),
                                   Add(call.baselineChurnProb,
                                       Num((effect * effectivenessDecay(days))
                                           \div DecayUnit))))

\* a call at 7d_earlier, where the decay is the smallest of the table, that
\* lowered the baseline by the effect times that decay
C29_Witness ==
  /\ call.op = "calculateCounterfactualChurn"
  /\ call.interventionType = "discount_offer"
  /\ call.interventionTiming = "7d_earlier"
  /\ IsNum(call.baselineChurnProb)
  /\ IsNum(ret.val)
  /\ ret.val.v > 0
  /\ call.baselineChurnProb.v - ret.val.v
       = (20 * (SCALE \div 100) * effectivenessDecay(7)) \div DecayUnit

\* C30: findBestIntervention always returns a simulation result (never
\* null) whose intervention_type is one of proactive_outreach,
\* priority_support, discount_offer and whose intervention_timing is one of
\* 7d_earlier, 14d_earlier, 30d_earlier, for every customer passed to it,
\* including one whose baseline_churn_prob is missing or non-numeric.
C30_BestIsNeverNull ==
  call.op = "findBestIntervention"
  => /\ ret # Null
     /\ ret.kind = "result"
     /\ ret.val.intervention_type \in EffectiveTypes
     /\ ret.val.intervention_timing \in EarlierTimings

====
